---- MODULE Spec2Model ----
(***************************************************************************)
(* A model of proxerscrape: the detail-page enricher                       *)
(* (WatchlistCategory.LoadExtraData and populateMediaWithExtraData,        *)
(* parse.go), the on-disk HTML cache (retrieve, Cache.RetrieveAnimeRawData)*)
(* and the rate limiter the cache's queries go through.                    *)
(*                                                                         *)
(* The specifications share the module's variables:                        *)
(*   Spec            one caller invoking LoadExtraData repeatedly on one   *)
(*                   category, with its worker and waiter goroutines;      *)
(*   SpecFair        Spec under fair scheduling of the goroutines;         *)
(*   SpecCache       clients calling Cache.RetrieveAnimeRawData and the    *)
(*                   invalidators it returns, statement by statement;      *)
(*   SpecLimiter     callers of Limiter.Wait under a discrete clock;       *)
(*   SpecIdentifier  getCacheIdentifier on the URLs of a Media;            *)
(*   SpecProfile     ParseProfileMediaTab on the tables of a profile tab;  *)
(*   SpecTitle       ParseProfileMediaTab on the texts of a row's link;    *)
(*   SpecDetail      the detail parser on the pages it tells apart.        *)
(***************************************************************************)
EXTENDS Integers, Sequences, FiniteSets, TLC

\* ------------------------------------------------------------------ bounds

\* Entries of the category's Data slice.
NumEntries == 2
\* Calls of LoadExtraData the caller makes.
MaxCalls == 2
\* Concurrent clients of the cache in SpecCache.
NumClients == 2
\* Calls of Cache.RetrieveAnimeRawData the clients make in SpecCache.
MaxRetrieves == 3
\* Concurrent callers of Limiter.Wait in SpecLimiter.
NumCallers == 2
\* The clock's ticks per window: a limiter's window is this many ticks long.
TicksPerWindow == 3
\* The largest maxPermits of the limiters SpecLimiter adds to the defaults.
MaxPermits == 2
\* The pieces a ProxerURL of SpecIdentifier is put together from, at most.
MaxPieces == 3
\* The entry rows of one table of the profile tab in SpecProfile, at most.
MaxRows == 1
\* The links of a Season row of a detail page in SpecDetail, at most.
MaxLinks == 2
\* The characters of a link's text in SpecTitle, at most.
MaxTitle == 5

\* ------------------------------------------------------------- text values

\* A string is a tuple of one-character strings, so that the regular
\* expression of getCacheIdentifier can be evaluated on it.
InfoPrefix == <<"/", "i", "n", "f", "o", "/">>

Digits == <<"1", "2", "3", "4", "5", "6", "7", "8", "9">>

IsDigit(ch) == ch \in {"0", "1", "2", "3", "4", "5", "6", "7", "8", "9"}

Min(S) == CHOOSE x \in S : \A y \in S : x <= y

\* The maximal run of digits of s that starts at position i (\d+, greedy).
RECURSIVE DigitRun(_, _)
DigitRun(s, i) ==
    IF i <= Len(s) /\ IsDigit(s[i]) THEN <<s[i]>> \o DigitRun(s, i + 1) ELSE <<>>

\* The positions of s at which /info/(\d+).* matches.
InfoMatches(s) ==
    {i \in 1..Len(s) :
        /\ i + 6 <= Len(s)
        /\ SubSeq(s, i, i + 5) = InfoPrefix
        /\ IsDigit(s[i + 6])}

\* An identifier taken from the rightmost match.  C12_IdentifierOfInfoURL must
\* reject it.
getCacheIdentifierLastMatch(anime) ==
    LET s == anime.ProxerURL
        m == InfoMatches(s)
    IN  IF m = {} THEN <<>>
        ELSE DigitRun(s, (CHOOSE x \in m : \A y \in m : y <= x) + 6)

\* FindStringSubmatch(...)[1]: the first capture group of the leftmost match
\* of the unanchored pattern.  With no match the Go code indexes a nil slice
\* and panics; that outcome is the empty identifier here.
getCacheIdentifier(anime) ==
    LET s == anime.ProxerURL
        m == InfoMatches(s)
    IN  IF m = {} THEN <<>> ELSE DigitRun(s, Min(m) + 6)

\* --------------------------------------------------------------- the Media

\* Season: the four quarters; the empty string is the zero value.
Q1 == "Q1"
Q2 == "Q2"
Q3 == "Q3"
Q4 == "Q4"

ZeroReleasePeriod ==
    [FromSeason |-> "", FromYear |-> 0, ToSeason |-> "", ToYear |-> 0]

\* The i-th entry as the profile parser leaves it: profile fields set, the
\* lazy fields at their zero values.  Rating is kept in tenths.
NewMedia(i) ==
    [EpisodesWatched |-> i,
     EpisodeCount    |-> 12,
     Title           |-> "My Show",
     Type            |-> "Animeserie",
     ProxerURL       |-> InfoPrefix \o <<Digits[i]>> \o <<"#", "t", "o", "p">>,
     Status          |-> "Airing",
     EnglishTitle    |-> "",
     GermanTitle     |-> "",
     JapaneseTitle   |-> "",
     Synonyms        |-> <<>>,
     Rating          |-> 0,
     ReleasePeriod   |-> ZeroReleasePeriod,
     Generes         |-> <<>>]

Entries == 1..NumEntries

\* The cache identifiers of the category's entries.
CacheIds == {getCacheIdentifier(NewMedia(i)) : i \in Entries}

\* ------------------------------------------------------------ detail pages

\* A detail page is the sequence of the elements the parser selects, in
\* document order.  An element has a tag, its leaf text, the texts of its
\* genreTag links and the texts of its plain links (a plain link's text is
\* its whitespace-separated words, a word being [s, n] with n the number it
\* scans as under %d, or -1).
El(tag, text) == [tag |-> tag, text |-> text, texts |-> <<>>, links |-> <<>>]

Row(key, text) == [tag |-> "row", text |-> key, texts |-> <<text>>, links |-> <<>>]

GenresRow(tags) == [tag |-> "row", text |-> "Genres", texts |-> tags, links |-> <<>>]

SeasonRow(links) == [tag |-> "row", text |-> "Season", texts |-> <<>>, links |-> links]

Word(s) == [s |-> s, n |-> -1]

Num(n) == [s |-> "", n |-> n]

HealthyPage ==
    << El("title", "My Show - Proxer.Me"),
       Row("Englischer Titel", "My Show"),
       Row("Synonym", "MS"),
       GenresRow(<<"Action", "Drama">>),
       SeasonRow(<< <<Word("Winter"), Num(2020)>>, <<Word("Sommer"), Num(2021)>> >>),
       El("average", "4.3") >>

NotFoundPage ==
    << El("title", "404 - not found"), El("average", "4.3") >>

LoginPage ==
    << El("title", "Login - Proxer.Me"), El("h3", " Bitte logge dich ein, um diesen Bereich zu betreten.") >>

CaptchaPage ==
    << El("title", "My Show - Proxer.Me"),
       El("script", "//www.google.com/recaptcha/api.js"),
       Row("Synonym", "MS"),
       El("average", "4.3") >>

BadRatingPage ==
    << El("title", "My Show - Proxer.Me"),
       Row("Synonym", "MS"),
       GenresRow(<<"Action">>),
       El("average", "n/a") >>

\* A response body is a sequence of bytes; the bodies the remote site serves
\* are told apart by their bytes and differ in length.
HealthyBody == <<"h", "e", "a">>

NotFoundBody == <<"4", "0">>

LoginBody == <<"l">>

CaptchaBody == <<"c", "a", "p", "t">>

BadRatingBody == <<"r", "a">>

\* The bodies the remote site serves.
Bodies == {HealthyBody, NotFoundBody, LoginBody, CaptchaBody, BadRatingBody}

\* goquery.NewDocumentFromReader over the bytes: the page they are the HTML
\* of.  Any other bytes (an empty file, a mixture of two bodies) parse to a
\* document that has none of the elements.
Document(bytes) ==
    CASE bytes = HealthyBody   -> HealthyPage
      [] bytes = NotFoundBody  -> NotFoundPage
      [] bytes = LoginBody     -> LoginPage
      [] bytes = CaptchaBody   -> CaptchaPage
      [] bytes = BadRatingBody -> BadRatingPage
      [] OTHER                 -> <<>>

\* strings.Contains(title, "404")
Contains404(text) == text \in {"404 - not found", "Error 404"}

\* strings.HasPrefix(strings.TrimSpace(text), "Bitte logge dich ein")
IsLoginBanner(text) ==
    text \in {"Bitte logge dich ein", " Bitte logge dich ein, um diesen Bereich zu betreten."}

\* strconv.ParseFloat(text, 64), the value in tenths.
ParseFloat(text) ==
    CASE text = "4.3" -> [ok |-> TRUE, val |-> 43]
      [] text = "3.9" -> [ok |-> TRUE, val |-> 39]
      [] text = "0"   -> [ok |-> TRUE, val |-> 0]
      [] OTHER        -> [ok |-> FALSE, val |-> 0]

\* The elements of the page with the given tag, in document order.
Select(page, tag) == SelectSeq(page, LAMBDA e : e.tag = tag)

\* parseSeason: fmt.Sscanf(seasonRaw, "%s %d") and the season switch.  A
\* failed scan returns ("", 0, nil): the error is discarded.
parseSeason(seasonRaw) ==
    IF Len(seasonRaw) < 2 \/ seasonRaw[2].n < 0
    THEN [season |-> "", year |-> 0, err |-> FALSE]
    ELSE [season |-> CASE seasonRaw[1].s = "Winter"   -> Q1
                       [] seasonRaw[1].s = "Frühling" -> Q2
                       [] seasonRaw[1].s = "Sommer"   -> Q3
                       [] seasonRaw[1].s = "Herbst"   -> Q4
                       [] OTHER                       -> "",
          year   |-> seasonRaw[2].n,
          err    |-> FALSE]

\* The Season case of the row switch.
ApplySeason(item, children) ==
    IF Len(children) < 1 THEN item
    ELSE LET from == parseSeason(children[1])
         IN  IF from.err THEN item
             ELSE LET one == [item EXCEPT !.ReleasePeriod.FromSeason = from.season,
                                          !.ReleasePeriod.FromYear = from.year]
                  IN  IF Len(children) < 2 THEN one
                      ELSE LET to == parseSeason(children[2])
                           IN  IF to.err THEN one
                               ELSE [one EXCEPT !.ReleasePeriod.ToSeason = to.season,
                                                !.ReleasePeriod.ToYear = to.year]

\* A row callback that also takes a synonym for the entry's Title.
\* C11_Frame must reject it.
ApplyRowRetitling(item, row) ==
    CASE row.text = "Englischer Titel"  -> [item EXCEPT !.EnglishTitle = row.texts[1]]
      [] row.text = "Synonym"           -> [item EXCEPT !.Synonyms = Append(@, row.texts[1]),
                                                        !.Title = row.texts[1]]
      [] row.text = "Genres"            -> [item EXCEPT !.Generes = @ \o row.texts]
      [] OTHER                          -> item

\* One iteration of the Each callback over the details table's rows.
ApplyRow(item, row) ==
    CASE row.text = "Englischer Titel"  -> [item EXCEPT !.EnglishTitle = row.texts[1]]
      [] row.text = "Deutscher Titel"   -> [item EXCEPT !.GermanTitle = row.texts[1]]
      [] row.text = "Japanischer Titel" -> [item EXCEPT !.JapaneseTitle = row.texts[1]]
      [] row.text = "Synonym"           -> [item EXCEPT !.Synonyms = Append(@, row.texts[1])]
      [] row.text = "Genres"            -> [item EXCEPT !.Generes = @ \o row.texts]
      [] row.text = "Season"            -> ApplySeason(item, row.links)
      [] OTHER                          -> item

RECURSIVE ApplyRows(_, _)
ApplyRows(item, rows) ==
    IF rows = <<>> THEN item ELSE ApplyRows(ApplyRow(item, Head(rows)), Tail(rows))

\* A parser without the classification of unusable pages: every document is
\* parsed as a detail page.  C4_UnusableIsNoError must reject it.
ParseDetailUnclassified(page, item) ==
    LET avgs   == Select(page, "average")
        filled == ApplyRows(item, Select(page, "row"))
    IN  IF avgs = <<>> \/ ~ParseFloat(avgs[1].text).ok
        THEN [err |-> "rating", invalidated |-> 0, item |-> filled]
        ELSE [err |-> "", invalidated |-> 0,
              item |-> [filled EXCEPT !.Rating = ParseFloat(avgs[1].text).val]]

\* What populateMediaWithExtraData does with the document it parsed from the
\* reader: err is "" for a nil error, invalidated counts the calls of the
\* cache invalidator, item is the entry afterwards.  A document without a
\* title or (past the classification) without an .average element makes the
\* Go code dereference nil: err is "panic".
ParseDetail(page, item) ==
    LET titles  == Select(page, "title")
        h3s     == Select(page, "h3")
        scripts == SelectSeq(page, LAMBDA e :
                       e.tag = "script" /\ e.text = "//www.google.com/recaptcha/api.js")
        avgs    == Select(page, "average")
        filled  == ApplyRows(item, Select(page, "row"))
    IN  IF titles = <<>> THEN [err |-> "panic", invalidated |-> 0, item |-> item]
        ELSE IF Contains404(titles[1].text)
        THEN [err |-> "", invalidated |-> 1, item |-> item]
        ELSE IF h3s # <<>> /\ IsLoginBanner(h3s[1].text)
        THEN [err |-> "", invalidated |-> 1, item |-> item]
        ELSE IF scripts # <<>>
        THEN [err |-> "captcha", invalidated |-> 0, item |-> item]
        ELSE IF avgs = <<>>
        THEN [err |-> "panic", invalidated |-> 0, item |-> filled]
        ELSE IF ~ParseFloat(avgs[1].text).ok
        THEN [err |-> "rating", invalidated |-> 0, item |-> filled]
        ELSE [err |-> "", invalidated |-> 0,
              item |-> [filled EXCEPT !.Rating = ParseFloat(avgs[1].text).val]]

\* ------------------------------------------------------------------- state

VARIABLES
    Data,             \* WatchlistCategory.Data: the entries, by index
    extraDataLoaded,  \* WatchlistCategory.extraDataLoaded
    site,             \* the body proxer.me serves for each identifier
    dir,              \* the cache directory: identifier -> inode, 0 when absent
    inodes,           \* the bytes of each inode
    fetches,          \* invocations of cache.QueryMedia
    waits,            \* invocations of cache.AnimeQueryRatelimiter.Wait
    call,             \* calls of LoadExtraData begun so far
    callerPc,         \* where the caller is: "idle", "loop" or "select"
    nextItem,         \* the index the range loop launches next
    result,           \* what each call returned: "", "running", "ok", "err"
    waitGroup,        \* each call's waitGroup counter
    errChannel,       \* each call's errChannel (capacity 1)
    doneChannel,      \* each call's doneChannel (capacity 1)
    waiter,           \* each call's goroutine around waitGroup.Wait()
    worker,           \* each call's worker goroutines, by entry
    panicked,         \* a goroutine panicked: the process is gone
    client,           \* SpecCache: each client's place in retrieve and its locals
    retrieves,        \* SpecCache: calls of RetrieveAnimeRawData begun so far
    removed,          \* SpecCache: paths an invalidator removed, not created since
    stored,           \* SpecCache: per path, the body an undisturbed miss left there
    limiter,          \* SpecLimiter: the limiter under test
    available,        \* SpecLimiter: the limiter's permits that can be acquired
    pending,          \* SpecLimiter: the consumed permits, by ticks until they return
    acquired,         \* SpecLimiter: the acquisitions completed, by age in ticks
    waitQueue,        \* SpecLimiter: the callers blocked in Wait, first come first
    anime,            \* SpecIdentifier: the Media getCacheIdentifier is called on
    identifier,       \* SpecIdentifier: what getCacheIdentifier returned
    document,         \* SpecProfile: the profile tab's tables, by category
    watchlist,        \* SpecProfile: what ParseProfileMediaTab did
    detail            \* SpecDetail: a detail page, the entry, what the parser did

categoryVars == <<Data, extraDataLoaded>>

cacheVars == <<site, dir, inodes, fetches, waits>>

callVars ==
    <<call, callerPc, nextItem, result, waitGroup, errChannel, doneChannel,
      waiter, worker, panicked>>

clientVars == <<client, retrieves, removed, stored>>

limiterVars == <<limiter, available, pending, acquired, waitQueue>>

parserVars == <<anime, identifier, document, watchlist, detail>>

vars == <<categoryVars, cacheVars, callVars, clientVars, limiterVars, parserVars>>

Calls == 1..MaxCalls

Clients == 1..NumClients

\* ------------------------------------------------------------ file system

\* Inodes enough for every path and every open descriptor.
Inodes == 1..(Cardinality(CacheIds) + NumClients)

NoReader == [kind |-> "none", inode |-> 0, data |-> <<>>]

\* An *os.File open for reading on an inode.
FileReader(n) == [kind |-> "file", inode |-> n, data |-> <<>>]

\* io.NopCloser(&bufferCopy): a reader over bytes held in memory.
BufferReader(data) == [kind |-> "buffer", inode |-> 0, data |-> data]

\* An inode is in use while a path or an open descriptor refers to it.
UsedInodes(d, cl) ==
    ({d[k] : k \in CacheIds} \cup {cl[q].fd : q \in Clients}
        \cup {cl[q].reader.inode : q \in Clients}) \ {0}

\* Unreferenced inodes hold nothing.
Reclaim(ino, d, cl) ==
    [n \in Inodes |-> IF n \in UsedInodes(d, cl) THEN ino[n] ELSE <<>>]

\* The bytes at a path; none when the path is absent.
FileBytes(d, ino, k) == IF d[k] = 0 THEN <<>> ELSE ino[d[k]]

\* What reading the reader to its end yields.
ReadAll(reader, ino) ==
    IF reader.kind = "file" THEN ino[reader.inode] ELSE reader.data

\* A write that stores nothing.  C8_RoundTrip must reject it.
WriteNothing(old, bytes) == old

\* A write of bytes at offset 0 of a file holding old.
WriteAt0(old, bytes) ==
    IF Len(old) <= Len(bytes) THEN bytes
    ELSE bytes \o SubSeq(old, Len(bytes) + 1, Len(old))

\* An invalidator that removes nothing.  C7_InvalidatorDeletes must reject it.
cacheInvalidatorKeeping(d, k) == d

\* os.Remove(cacheFilePath): the path is unlinked; removing an absent path
\* is an error the callers only log.
cacheInvalidator(d, k) == [d EXCEPT ![k] = 0]

\* ---------------------------------------------------------------- retrieve

\* What the environment does to one retrieve: the outcome of os.Open, of the
\* query and of reading the response body.
RetrieveEnvs ==
    [open : {"ok", "eio"}, query : {"ok", "err"}, body : {"ok", "err"}]

\* In Spec the file system is sound and the network may fail.
SpecEnvs == {e \in RetrieveEnvs : e.open = "ok" /\ e.body = "ok"}

\* retrieve, called by Cache.RetrieveAnimeRawData for a Media, run to its
\* return: the error, the bytes the returned reader yields, and the cache it
\* leaves.  queried and waited tell whether cache.QueryMedia and the rate
\* limiter's Wait ran.
retrieve(item, env, d, ino, served) ==
    LET k     == getCacheIdentifier(item)
        fresh == Min(Inodes \ UsedInodes(d, client))
        same  == [dir |-> d, inodes |-> ino, queried |-> FALSE, waited |-> FALSE]
    IN  IF env.open = "eio"
        THEN same @@ [err |-> "open", bytes |-> <<>>]
        ELSE IF d[k] # 0
        THEN same @@ [err |-> "", bytes |-> ino[d[k]]]
        ELSE IF env.query = "err"
        THEN [dir |-> d, inodes |-> ino, queried |-> TRUE, waited |-> TRUE,
              err |-> "query", bytes |-> <<>>]
        ELSE IF env.body = "err"
        THEN [err |-> "body", bytes |-> <<>>,
              dir |-> [d EXCEPT ![k] = fresh],
              inodes |-> [ino EXCEPT ![fresh] = <<>>],
              queried |-> TRUE, waited |-> TRUE]
        ELSE [err |-> "", bytes |-> served[k],
              dir |-> [d EXCEPT ![k] = fresh],
              inodes |-> [ino EXCEPT ![fresh] = served[k]],
              queried |-> TRUE, waited |-> TRUE]

\* populateMediaWithExtraData(retrieveRawData, item) with the cache's
\* RetrieveAnimeRawData as the retriever: the error it returns ("" for nil),
\* the calls of the invalidator, the item and the cache afterwards.
populateMediaWithExtraData(item, env, d, ino, served) ==
    LET r  == retrieve(item, env, d, ino, served)
        p  == ParseDetail(Document(r.bytes), item)
        d2 == IF p.invalidated > 0
              THEN cacheInvalidator(r.dir, getCacheIdentifier(item))
              ELSE r.dir
    IN  IF r.err # ""
        THEN [err |-> r.err, invalidated |-> 0, item |-> item, bytes |-> r.bytes,
              dir |-> r.dir, inodes |-> r.inodes,
              queried |-> r.queried, waited |-> r.waited]
        ELSE [err |-> p.err, invalidated |-> p.invalidated, item |-> p.item,
              bytes |-> r.bytes, dir |-> d2, inodes |-> Reclaim(r.inodes, d2, client),
              queried |-> r.queried, waited |-> r.waited]

\* No bytes recorded (the empty sequence is a file's possible content).
NoBytes == <<"-">>

\* A client of the cache that is in no call of RetrieveAnimeRawData.
IdleClient ==
    [pc |-> "idle", key |-> <<>>, err |-> "", hit |-> FALSE,
     queried |-> FALSE, waited |-> FALSE, body |-> <<>>, buffer |-> <<>>,
     fd |-> 0, reader |-> NoReader, got |-> <<>>,
     disturbed |-> FALSE, sawRemoved |-> FALSE, expect |-> NoBytes]

\* -------------------------------------------------------- LoadExtraData

\* A worker not launched yet.  Besides its place, a worker keeps what its
\* call of populateMediaWithExtraData did: the bytes its reader yielded, the
\* error returned and the calls of the invalidator.
IdleWorker == [pc |-> "idle", bytes |-> <<>>, err |-> "", invalidated |-> 0]

\* A LoadExtraData without the early return on extraDataLoaded.
\* C3_Idempotent must reject it.
LoadExtraDataUnguarded ==
    /\ ~panicked
    /\ UNCHANGED <<clientVars, limiterVars, parserVars>>
    /\ callerPc = "idle"
    /\ call < MaxCalls
    /\ call' = call + 1
    /\ result' = [result EXCEPT ![call + 1] = "running"]
    /\ waiter' = [waiter EXCEPT ![call + 1] = "wait"]
    /\ callerPc' = "loop"
    /\ nextItem' = 1
    /\ UNCHANGED <<categoryVars, cacheVars, waitGroup, errChannel, doneChannel,
                   worker, panicked>>

\* LoadExtraData up to the range loop: the early return when the data is
\* loaded already, else the channels, the wait group and the goroutine that
\* waits on it.
LoadExtraData ==
    /\ ~panicked
    /\ UNCHANGED <<clientVars, limiterVars, parserVars>>
    /\ callerPc = "idle"
    /\ call < MaxCalls
    /\ call' = call + 1
    /\ IF extraDataLoaded
       THEN /\ result' = [result EXCEPT ![call + 1] = "ok"]
            /\ UNCHANGED <<callerPc, nextItem, waiter>>
       ELSE /\ result' = [result EXCEPT ![call + 1] = "running"]
            /\ waiter' = [waiter EXCEPT ![call + 1] = "wait"]
            /\ callerPc' = "loop"
            /\ nextItem' = 1
    /\ UNCHANGED <<categoryVars, cacheVars, waitGroup, errChannel, doneChannel,
                   worker, panicked>>

\* A loop whose goroutines all take the category's first entry.
\* C20_OneWorkerPerEntry must reject it.
LaunchFirst ==
    /\ ~panicked
    /\ UNCHANGED <<clientVars, limiterVars, parserVars>>
    /\ callerPc = "loop"
    /\ waitGroup' = [waitGroup EXCEPT ![call] = @ + 1]
    /\ worker' = [worker EXCEPT ![call][1].pc = "populate"]
    /\ nextItem' = nextItem + 1
    /\ callerPc' = IF nextItem = NumEntries THEN "select" ELSE "loop"
    /\ UNCHANGED <<categoryVars, cacheVars, call, result, errChannel,
                   doneChannel, waiter, panicked>>

\* One iteration of the range loop: waitGroup.Add(1) and the go statement.
Launch ==
    /\ ~panicked
    /\ UNCHANGED <<clientVars, limiterVars, parserVars>>
    /\ callerPc = "loop"
    /\ waitGroup' = [waitGroup EXCEPT ![call] = @ + 1]
    /\ worker' = [worker EXCEPT ![call][nextItem].pc = "populate"]
    /\ nextItem' = nextItem + 1
    /\ callerPc' = IF nextItem = NumEntries THEN "select" ELSE "loop"
    /\ UNCHANGED <<categoryVars, cacheVars, call, result, errChannel,
                   doneChannel, waiter, panicked>>

\* The select's first case: an error is received and returned.
SelectErr ==
    /\ ~panicked
    /\ UNCHANGED <<clientVars, limiterVars, parserVars>>
    /\ callerPc = "select"
    /\ errChannel[call] # <<>>
    /\ errChannel' = [errChannel EXCEPT ![call] = Tail(@)]
    /\ result' = [result EXCEPT ![call] = "err"]
    /\ callerPc' = "idle"
    /\ UNCHANGED <<categoryVars, cacheVars, call, nextItem, waitGroup,
                   doneChannel, waiter, worker, panicked>>

\* The select's second case: done is received, the flag set, nil returned.
SelectDone ==
    /\ ~panicked
    /\ UNCHANGED <<clientVars, limiterVars, parserVars>>
    /\ callerPc = "select"
    /\ doneChannel[call] # <<>>
    /\ doneChannel' = [doneChannel EXCEPT ![call] = Tail(@)]
    /\ extraDataLoaded' = TRUE
    /\ result' = [result EXCEPT ![call] = "ok"]
    /\ callerPc' = "idle"
    /\ UNCHANGED <<Data, cacheVars, call, nextItem, waitGroup, errChannel,
                   waiter, worker, panicked>>

\* The waiter goroutine on a zero counter: waitGroup.Wait() returns at once
\* and done is sent (the channel's one slot is free: this is its only
\* sender).  On a positive counter the goroutine parks.
WaiterWait(c) ==
    /\ ~panicked
    /\ UNCHANGED <<clientVars, limiterVars, parserVars>>
    /\ waiter[c] = "wait"
    /\ IF waitGroup[c] = 0
       THEN /\ doneChannel' = [doneChannel EXCEPT ![c] = Append(@, "done")]
            /\ waiter' = [waiter EXCEPT ![c] = "exit"]
       ELSE /\ waiter' = [waiter EXCEPT ![c] = "blocked"]
            /\ UNCHANGED doneChannel
    /\ UNCHANGED <<categoryVars, cacheVars, call, callerPc, nextItem, result,
                   waitGroup, errChannel, worker, panicked>>

\* The parked waiter resumes after the counter reached zero and sends done.
\* sync.WaitGroup panics ("WaitGroup is reused before previous Wait has
\* returned") when the loop has called Add again in between.
WaiterWake(c) ==
    /\ ~panicked
    /\ UNCHANGED <<clientVars, limiterVars, parserVars>>
    /\ waiter[c] = "woken"
    /\ IF waitGroup[c] # 0
       THEN panicked' = TRUE /\ UNCHANGED <<waiter, doneChannel>>
       ELSE /\ doneChannel' = [doneChannel EXCEPT ![c] = Append(@, "done")]
            /\ waiter' = [waiter EXCEPT ![c] = "exit"]
            /\ UNCHANGED panicked
    /\ UNCHANGED <<categoryVars, cacheVars, call, callerPc, nextItem, result,
                   waitGroup, errChannel, worker>>

\* The worker's call of populateMediaWithExtraData on its item.
WorkerPopulate(c, i) ==
    /\ ~panicked
    /\ UNCHANGED <<clientVars, limiterVars, parserVars>>
    /\ worker[c][i].pc = "populate"
    /\ \E env \in SpecEnvs :
        \E p \in {populateMediaWithExtraData(Data[i], env, dir, inodes, site)} :
            /\ Data' = [Data EXCEPT ![i] = p.item]
            /\ dir' = p.dir
            /\ inodes' = p.inodes
            /\ fetches' = fetches + (IF p.queried THEN 1 ELSE 0)
            /\ waits' = waits + (IF p.waited THEN 1 ELSE 0)
            /\ panicked' = (p.err = "panic")
            /\ worker' = [worker EXCEPT ![c][i] =
                   [pc |-> IF p.err = "" THEN "done" ELSE "send",
                    bytes |-> p.bytes, err |-> p.err,
                    invalidated |-> p.invalidated]]
    /\ UNCHANGED <<extraDataLoaded, site, call, callerPc, nextItem, result,
                   waitGroup, errChannel, doneChannel, waiter>>

\* errChannel <- err: the send blocks while the channel's one slot is full.
WorkerSend(c, i) ==
    /\ ~panicked
    /\ UNCHANGED <<clientVars, limiterVars, parserVars>>
    /\ worker[c][i].pc = "send"
    /\ Len(errChannel[c]) < 1
    /\ errChannel' = [errChannel EXCEPT ![c] = Append(@, worker[c][i].err)]
    /\ worker' = [worker EXCEPT ![c][i].pc = "done"]
    /\ UNCHANGED <<categoryVars, cacheVars, call, callerPc, nextItem, result,
                   waitGroup, doneChannel, waiter, panicked>>

\* The deferred waitGroup.Done(): a counter reaching zero releases the
\* parked waiter.
WorkerDone(c, i) ==
    /\ ~panicked
    /\ UNCHANGED <<clientVars, limiterVars, parserVars>>
    /\ worker[c][i].pc = "done"
    /\ waitGroup' = [waitGroup EXCEPT ![c] = @ - 1]
    /\ worker' = [worker EXCEPT ![c][i].pc = "exit"]
    /\ waiter' = IF waitGroup[c] = 1 /\ waiter[c] = "blocked"
                 THEN [waiter EXCEPT ![c] = "woken"]
                 ELSE waiter
    /\ UNCHANGED <<categoryVars, cacheVars, call, callerPc, nextItem, result,
                   errChannel, doneChannel, panicked>>

\* ------------------------------------------------------------ rate limiter

\* NewLimiter(maxPermits, window): a token bucket of maxPermits permits whose
\* window is given in minutes.
NewLimiter(maxPermits, window) == [maxPermits |-> maxPermits, window |-> window]

\* An anime limiter with one permit more.  C9_WindowBound must reject it.
animeRateLimiterLax == NewLimiter(19, 6)

animeRateLimiter == NewLimiter(18, 6)

mangaRateLImiter == NewLimiter(8, 5)

userRateLImiter == NewLimiter(38, 6)

\* CreateDefaultCache: the limiters the default cache queries through.
CreateDefaultCache ==
    [AnimeQueryRatelimiter      |-> animeRateLimiter,
     MangaQueryRatelimiter      |-> mangaRateLImiter,
     ProfileTabQueryRatelimiter |-> userRateLImiter]

Callers == 1..NumCallers

\* The ticks until a consumed permit returns, and the ages of the
\* acquisitions a window reaches back to.
Remaining == 1..TicksPerWindow

Ages == 0..(TicksPerWindow - 1)

\* The limiter of the specifications that query through none.
NoLimiter == [field |-> "", maxPermits |-> 0, window |-> 0]

\* A limiter as NewLimiter returns it: every permit available, nobody
\* waiting, nothing acquired.
InitLimiter(l) ==
    /\ limiter = l
    /\ available = l.maxPermits
    /\ pending = [r \in Remaining |-> 0]
    /\ acquired = [a \in Ages |-> 0]
    /\ waitQueue = <<>>

\* ----------------------------------------------------------- profile parser

\* No identifier computed yet.
Unset == <<"unset">>

\* The watchlist categories, in the order ParseProfileMediaTab parses them.
Categories == <<"Watched", "CurrentlyWatching", "ToWatch", "StoppedWatching">>

\* A profile tab whose four tables have no entry rows.  readError tells
\* whether reading the tab's HTML fails.
EmptyDocument == [readError |-> FALSE, tables |-> [n \in DOMAIN Categories |-> <<>>]]

\* ParseProfileMediaTab has not run.
Unparsed ==
    [outcome |-> "none", tables |-> EmptyDocument.tables,
     extraDataLoaded |-> [n \in DOMAIN Categories |-> FALSE]]

\* The detail parser has not run on the page.
NotParsed == [err |-> "unparsed", invalidated |-> 0, item |-> NewMedia(1)]

\* No detail page is at hand.
NoDetail == [page |-> <<>>, item |-> NewMedia(1), result |-> NotParsed]

\* The specifications that parse nothing.
InitParser ==
    /\ anime = NewMedia(1)
    /\ identifier = Unset
    /\ document = EmptyDocument
    /\ watchlist = Unparsed
    /\ detail = NoDetail

\* A cache directory holding, for the identifiers in cached, what the site
\* serves for them.
WarmDir(cached) ==
    LET ks == CHOOSE f \in [1..Cardinality(cached) -> cached] :
                  \A a, b \in DOMAIN f : a # b => f[a] # f[b]
    IN  [k \in CacheIds |->
            IF k \in cached THEN CHOOSE n \in DOMAIN ks : ks[n] = k ELSE 0]

\* No call of LoadExtraData has begun.
InitCalls ==
    /\ call = 0
    /\ callerPc = "idle"
    /\ nextItem = 1
    /\ result = [c \in Calls |-> ""]
    /\ waitGroup = [c \in Calls |-> 0]
    /\ errChannel = [c \in Calls |-> <<>>]
    /\ doneChannel = [c \in Calls |-> <<>>]
    /\ waiter = [c \in Calls |-> "idle"]
    /\ worker = [c \in Calls |-> [i \in Entries |-> IdleWorker]]
    /\ panicked = FALSE

\* No client of SpecCache is active.
InitClients ==
    /\ client = [q \in Clients |-> IdleClient]
    /\ retrieves = 0
    /\ removed = {}
    /\ stored = [k \in CacheIds |-> NoBytes]

\* The cache directory holds, for the identifiers in cached, what the site
\* serves for them, and nothing has been fetched.
InitCache(cached) ==
    /\ dir = WarmDir(cached)
    /\ inodes = [n \in Inodes |->
                    IF \E k \in CacheIds : WarmDir(cached)[k] = n
                    THEN site[CHOOSE k \in CacheIds : WarmDir(cached)[k] = n]
                    ELSE <<>>]
    /\ fetches = 0
    /\ waits = 0

\* The category as ParseProfileMediaTab leaves it, the site serving some
\* body for every entry, and the cache empty or holding the site's bodies.
Init ==
    /\ Data = [i \in Entries |-> NewMedia(i)]
    /\ extraDataLoaded = FALSE
    /\ site \in [CacheIds -> Bodies]
    /\ \E cached \in {{}, CacheIds} : InitCache(cached)
    /\ InitCalls
    /\ InitClients
    /\ InitLimiter(NoLimiter)
    /\ InitParser

Next ==
    \/ LoadExtraData
    \/ Launch
    \/ SelectErr
    \/ SelectDone
    \/ \E c \in Calls : WaiterWait(c)
    \/ \E c \in Calls : WaiterWake(c)
    \/ \E c \in Calls, i \in Entries : WorkerPopulate(c, i)
    \/ \E c \in Calls, i \in Entries : WorkerSend(c, i)
    \/ \E c \in Calls, i \in Entries : WorkerDone(c, i)

Spec == Init /\ [][Next]_vars

\* Every detail page answers with the recaptcha page, and the cache is empty.
InitFair ==
    /\ Data = [i \in Entries |-> NewMedia(i)]
    /\ extraDataLoaded = FALSE
    /\ site = [k \in CacheIds |-> CaptchaBody]
    /\ InitCache({})
    /\ InitCalls
    /\ InitClients
    /\ InitLimiter(NoLimiter)
    /\ InitParser

\* The Go scheduler runs every goroutine that can take a step: the caller
\* inside LoadExtraData, the waiter and the workers.  Whether the caller
\* calls LoadExtraData again is up to the caller.  A worker's call of
\* populateMediaWithExtraData can always return, so weak fairness for it says
\* that the worker is not inside the call forever.
Fairness ==
    /\ WF_vars(Launch \/ SelectErr \/ SelectDone)
    /\ \A c \in Calls : WF_vars(WaiterWait(c) \/ WaiterWake(c))
    /\ \A c \in Calls, i \in Entries :
          /\ WF_vars(WorkerSend(c, i) \/ WorkerDone(c, i))
          /\ []<>(panicked \/ worker[c][i].pc # "populate")

SpecFair == InitFair /\ [][Next]_vars /\ Fairness

\* ------------------------------------------------ claims on LoadExtraData

\* The call c launched its goroutines (it did not return at the flag).
Launched(c) == waiter[c] # "idle"

\* The call c has returned.
Returned(c) == result[c] \in {"ok", "err"}

\* Worker i of call c has returned from populateMediaWithExtraData.
Populated(c, i) == worker[c][i].pc \in {"send", "done", "exit"}

\* Worker i of call c got a fatal error from populateMediaWithExtraData.
Failed(c, i) == Populated(c, i) /\ worker[c][i].err \notin {"", "panic"}

\* The lazy fields of an entry.
Lazy(m) ==
    <<m.EnglishTitle, m.GermanTitle, m.JapaneseTitle, m.Synonyms, m.Rating,
      m.ReleasePeriod, m.Generes>>

\* The page is one the parser classifies as unusable: a 404 title or a
\* login banner in the first h3.
IsUnusable(page) ==
    \/ \E n \in DOMAIN page :
        /\ page[n].tag = "title"
        /\ \A m \in 1..(n - 1) : page[m].tag # "title"
        /\ Contains404(page[n].text)
    \/ \E n \in DOMAIN page :
        /\ page[n].tag = "h3"
        /\ \A m \in 1..(n - 1) : page[m].tag # "h3"
        /\ IsLoginBanner(page[n].text)

\* The page carries the recaptcha script.
HasCaptcha(page) ==
    \E n \in DOMAIN page :
        page[n].tag = "script" /\ page[n].text = "//www.google.com/recaptcha/api.js"

\* C1: when a worker of a call got a fatal error from
\* populateMediaWithExtraData, the call does not return success, and while it
\* is the last call and returned the error, extraDataLoaded is false.
C1_FatalErrorIsReturned ==
    \A c \in Calls :
        (\E i \in Entries : Failed(c, i)) =>
            /\ result[c] # "ok"
            /\ (result[c] = "err" /\ call = c => ~extraDataLoaded)

\* C2: a call that launched workers has returned success (and set
\* extraDataLoaded) only when every worker it launches has finished.
C2_SuccessAfterAllWorkers ==
    \A c \in Calls :
        Launched(c) /\ result[c] = "ok" =>
            \A i \in Entries : worker[c][i].pc = "exit"

\* C3: once extraDataLoaded is true it stays true, and a call made then
\* returns success in its first step, starts no goroutine, and changes no
\* entry, no cache file and no counter of the retriever.
C3_Idempotent ==
    [][ /\ extraDataLoaded => extraDataLoaded'
        /\ extraDataLoaded /\ call' = call + 1 =>
              /\ result'[call'] = "ok"
              /\ callerPc' = "idle"
              /\ UNCHANGED <<Data, cacheVars, waitGroup, errChannel,
                             doneChannel, waiter, worker>> ]_vars

\* A second call returned at the flag although a cache file is missing, so
\* that the retriever would have had to fetch.
C3_Witness ==
    \E c \in Calls :
        /\ c > 1
        /\ result[c] = "ok"
        /\ ~Launched(c)
        /\ \E k \in CacheIds : dir[k] = 0

\* C4: a worker whose reader yielded an unusable page returned no error and
\* invoked the invalidator once; its step left the entry untouched and the
\* entry's cache file absent; the entry's lazy fields are the zero values;
\* and a call returns an error only when one of its workers got a fatal
\* error, and success only with extraDataLoaded set.
C4_UnusableStep ==
    \A c \in Calls, i \in Entries :
        worker[c][i].pc = "populate" /\ Populated(c, i)'
            /\ IsUnusable(Document(worker[c][i].bytes'))
        => /\ Data'[i] = Data[i]
           /\ dir'[getCacheIdentifier(Data[i])] = 0

C4_UnusableState ==
    /\ \A c \in Calls, i \in Entries :
          Populated(c, i) /\ IsUnusable(Document(worker[c][i].bytes))
          => /\ worker[c][i].err = ""
             /\ worker[c][i].invalidated = 1
             /\ Lazy(Data[i]) = Lazy(NewMedia(i))
    /\ \A c \in Calls :
          /\ result[c] = "err" => \E i \in Entries : Failed(c, i)
          /\ result[c] = "ok" => extraDataLoaded

C4_UnusableIsNoError == [][C4_UnusableStep]_vars /\ []C4_UnusableState

\* A call that launched workers returned success, one of its workers having
\* met an unusable page whose cache file is gone.
C4_Witness ==
    \E c \in Calls, i \in Entries :
        /\ Launched(c)
        /\ result[c] = "ok"
        /\ worker[c][i].pc = "exit"
        /\ IsUnusable(Document(worker[c][i].bytes))
        /\ dir[getCacheIdentifier(Data[i])] = 0
        /\ \A j \in Entries : ~Failed(c, j)

\* C5: when a worker's reader yielded a page with the recaptcha script that
\* is not unusable, its call does not return success, extraDataLoaded is
\* false while that call is the last one and returned, the invalidator was
\* not invoked and the cache file exists, and the entry's lazy fields are
\* unmodified.
C5_CaptchaIsFatal ==
    \A c \in Calls, i \in Entries :
        /\ Populated(c, i)
        /\ HasCaptcha(Document(worker[c][i].bytes))
        /\ ~IsUnusable(Document(worker[c][i].bytes))
        => /\ result[c] # "ok"
           /\ (Returned(c) /\ call = c => ~extraDataLoaded)
           /\ worker[c][i].invalidated = 0
           /\ dir[getCacheIdentifier(Data[i])] # 0
           /\ Lazy(Data[i]) = Lazy(NewMedia(i))

\* C10: while the caller is in no call of LoadExtraData, no worker of any
\* call is still running.
C10_NoWorkerOutlivesCall ==
    callerPc = "idle" =>
        \A c \in Calls, i \in Entries : worker[c][i].pc \in {"idle", "exit"}

\* The profile-derived fields of an entry.
Profile(m) ==
    <<m.EpisodesWatched, m.EpisodeCount, m.Title, m.Type, m.ProxerURL, m.Status>>

\* C11: whatever calls of LoadExtraData ran, succeeding or failing, Data has
\* the entries it had, in their order, and every entry's profile-derived
\* fields are as the profile parser left them.
C11_Frame ==
    /\ DOMAIN Data = Entries
    /\ \A i \in Entries : Profile(Data[i]) = Profile(NewMedia(i))

\* A call failed and a later one succeeded, and an entry's lazy fields were
\* filled on the way.
C11_Witness ==
    \E c, d \in Calls :
        /\ c < d
        /\ result[c] = "err"
        /\ result[d] = "ok"
        /\ \E i \in Entries : Lazy(Data[i]) # Lazy(NewMedia(i))

\* The waiter and every worker of the call have terminated.
Terminated(c) ==
    waiter[c] = "exit" /\ \A i \in Entries : worker[c][i].pc = "exit"

\* C15: under fair scheduling, the goroutines of every call that started
\* them terminate: again and again the program is in a state in which the
\* waiter and all workers of every such call have ended (or the process has
\* gone down in a panic).
C15_GoroutinesTerminate ==
    []<>(panicked \/ \A c \in Calls : Launched(c) => Terminated(c))

\* The genreTag texts of the page's Genres rows, in document order.
RECURSIVE PageGenres(_)
PageGenres(page) ==
    IF page = <<>> THEN <<>>
    ELSE (IF Head(page).tag = "row" /\ Head(page).text = "Genres"
          THEN Head(page).texts ELSE <<>>) \o PageGenres(Tail(page))

\* The texts of the page's Synonym rows, in document order.
RECURSIVE PageSynonyms(_)
PageSynonyms(page) ==
    IF page = <<>> THEN <<>>
    ELSE (IF Head(page).tag = "row" /\ Head(page).text = "Synonym"
          THEN Head(page).texts ELSE <<>>) \o PageSynonyms(Tail(page))

\* No goroutine of any call is running.
Quiescent ==
    /\ callerPc = "idle"
    /\ \A c \in Calls :
          /\ waiter[c] \in {"idle", "exit"}
          /\ \A i \in Entries : worker[c][i].pc \in {"idle", "exit"}

\* C16: when the last call of LoadExtraData ran its workers, none of them got
\* an error, it returned success and all goroutines have ended, every entry
\* whose detail page is the healthy one has the page's genres as its Generes
\* and the page's synonyms as its Synonyms, each once.
C16_RetryYieldsFirstResult ==
    /\ call > 0 /\ Quiescent /\ ~panicked
    /\ result[call] = "ok" /\ Launched(call)
    /\ \A i \in Entries : worker[call][i].err = ""
    => \A i \in Entries :
           site[getCacheIdentifier(Data[i])] = HealthyBody =>
               /\ Data[i].Generes = PageGenres(HealthyPage)
               /\ Data[i].Synonyms = PageSynonyms(HealthyPage)

\* The range loop of call c is over.
LoopDone(c) == Launched(c) /\ (c < call \/ callerPc # "loop")

\* C20: in one call of LoadExtraData the loop launches one worker per entry
\* of Data, in order, and none twice; a step that changes Data is the
\* populate of one worker and changes that worker's entry alone; and the
\* steps of the workers leave extraDataLoaded as it is.  So each Media has
\* one writer among the goroutines of a call.
C20_LaunchStep ==
    \A c \in Calls, i \in Entries :
        worker[c][i].pc = "idle" /\ worker'[c][i].pc # "idle" =>
            /\ c = call /\ callerPc = "loop" /\ i = nextItem
            /\ nextItem' = i + 1
            /\ worker'[c][i].pc = "populate"
            /\ \A d \in Calls, j \in Entries :
                  <<d, j>> # <<c, i>> => worker'[d][j] = worker[d][j]

C20_WriteStep ==
    /\ Data' # Data =>
          \E c \in Calls, i \in Entries :
              /\ worker[c][i].pc = "populate" /\ worker'[c][i].pc # "populate"
              /\ \A j \in Entries \ {i} : Data'[j] = Data[j]
              /\ \A d \in Calls, j \in Entries :
                    <<d, j>> # <<c, i>> => worker'[d][j] = worker[d][j]
    /\ worker' # worker => extraDataLoaded' = extraDataLoaded

C20_Launched ==
    \A c \in Calls :
        /\ c = call /\ callerPc = "loop" =>
              \A i \in Entries : worker[c][i].pc # "idle" <=> i < nextItem
        /\ LoopDone(c) => \A i \in Entries : worker[c][i].pc # "idle"
        /\ ~Launched(c) => \A i \in Entries : worker[c][i].pc = "idle"

C20_OneWorkerPerEntry ==
    [][C20_LaunchStep /\ C20_WriteStep]_vars /\ []C20_Launched

\* The workers of a call have all ended, and each filled its own entry.
C20_Witness ==
    \E c \in Calls :
        /\ \A i \in Entries :
              /\ worker[c][i].pc = "exit"
              /\ Lazy(Data[i]) # Lazy(NewMedia(i))
        /\ Data[1].Generes # Data[2].Generes

\* Worker i of call c got the captcha error from populateMediaWithExtraData.
GotCaptcha(c, i) == Populated(c, i) /\ worker[c][i].err = "captcha"

\* C22: once a worker got the captcha error for an entry whose page was
\* fetched, the entry's cache file holds the captcha page; and when a call of
\* LoadExtraData returned an error and a worker of it got the captcha error,
\* every later call that has returned returned an error too.
C22_CaptchaStaysCached ==
    \A c \in Calls, i \in Entries :
        GotCaptcha(c, i) /\ fetches > 0 =>
            /\ dir[getCacheIdentifier(Data[i])] # 0
            /\ FileBytes(dir, inodes, getCacheIdentifier(Data[i])) = CaptchaBody
            /\ result[c] = "err" =>
                  \A d \in Calls : c < d /\ Returned(d) => result[d] = "err"

\* ---------------------------------------------------- SpecCache: retrieve

\* The bodies the site serves in SpecCache; their lengths differ.
ServedBodies == {HealthyBody, NotFoundBody}

\* Client p's operation on path k interferes with the other clients that are
\* past the failed open of a miss on k (disturbed), and, when it changes the
\* bytes of inode n, with the readers open on n (expect).
Disturb(cl, p, k, n) ==
    [q \in Clients |->
        IF q = p THEN cl[q]
        ELSE IF cl[q].key = k /\ cl[q].pc \in {"query", "request", "create", "copy", "write"}
        THEN [cl[q] EXCEPT !.disturbed = TRUE]
        ELSE IF n # 0 /\ cl[q].reader.inode = n
        THEN [cl[q] EXCEPT !.expect = NoBytes]
        ELSE cl[q]]

\* Cache.RetrieveAnimeRawData(item) up to the call of retrieve: the cache
\* identifier and the cache file's path.
RetrieveAnimeRawData(p, i) ==
    /\ client[p].pc \in {"idle", "failed", "held"}
    /\ retrieves < MaxRetrieves
    /\ retrieves' = retrieves + 1
    /\ client' = [client EXCEPT ![p] =
           [IdleClient EXCEPT !.pc = "open", !.key = getCacheIdentifier(Data[i])]]
    /\ UNCHANGED <<categoryVars, cacheVars, callVars, limiterVars, parserVars,
                   removed, stored>>

\* A retrieve that goes on to the query whether or not the cache file opened.
\* C6_HitBypassesFetch must reject it.
OpenCacheFileThenQuery(p) ==
    /\ client[p].pc = "open"
    /\ client' = [client EXCEPT ![p].pc = "query",
                                ![p].sawRemoved = (client[p].key \in removed)]
    /\ UNCHANGED <<categoryVars, cacheVars, callVars, limiterVars, parserVars,
                   retrieves, removed, stored>>

\* retrieve: os.Open(cacheFilePath).  A file that opens is returned with the
\* invalidator; an error other than not-exist is returned; not-exist goes on
\* to the query.
OpenCacheFile(p) ==
    /\ client[p].pc = "open"
    /\ \E outcome \in {"ok", "eio"} :
        LET k   == client[p].key
            saw == [client[p] EXCEPT !.sawRemoved = (k \in removed)]
        IN  client' = [client EXCEPT ![p] =
                IF outcome = "eio"
                THEN [saw EXCEPT !.pc = "failed", !.err = "open"]
                ELSE IF dir[k] # 0
                THEN [saw EXCEPT !.pc = "returned", !.hit = TRUE,
                                 !.reader = FileReader(dir[k]),
                                 !.expect = stored[k]]
                ELSE [saw EXCEPT !.pc = "query"]]
    /\ UNCHANGED <<categoryVars, cacheVars, callVars, limiterVars, parserVars,
                   retrieves, removed, stored>>

\* A query closure of a cache without a rate limiter: it does not wait.
\* C19_PermitPerFetch must reject it.
QueryWithoutLimiter(p) ==
    /\ client[p].pc = "query"
    /\ client' = [client EXCEPT ![p].pc = "request"]
    /\ UNCHANGED <<categoryVars, cacheVars, callVars, limiterVars, parserVars,
                   retrieves, removed, stored>>

\* retrieve: query(item), which is the closure of RetrieveAnimeRawData.  Its
\* first statement: cache.AnimeQueryRatelimiter.Wait() returns.
QueryWait(p) ==
    /\ client[p].pc = "query"
    /\ waits' = waits + 1
    /\ client' = [client EXCEPT ![p].pc = "request", ![p].waited = TRUE]
    /\ UNCHANGED <<categoryVars, site, dir, inodes, fetches, callVars,
                   limiterVars, parserVars, retrieves, removed, stored>>

\* A fetch whose failure leaves an empty cache file behind.
\* C21_FailureLeavesCache must reject it.
QueryMediaLeavingFile(p) ==
    /\ client[p].pc = "request"
    /\ fetches' = fetches + 1
    /\ \/ LET k == client[p].key
              n == IF dir[k] # 0 THEN dir[k]
                   ELSE Min(Inodes \ UsedInodes(dir, client))
          IN  /\ client' = [client EXCEPT ![p].pc = "failed", ![p].err = "query",
                                          ![p].queried = TRUE]
              /\ dir' = [dir EXCEPT ![k] = n]
              /\ inodes' = [inodes EXCEPT ![n] = <<>>]
              /\ UNCHANGED site
       \/ \E body \in ServedBodies :
          /\ site' = [site EXCEPT ![client[p].key] = body]
          /\ client' = [client EXCEPT ![p].pc = "create", ![p].body = body,
                                      ![p].queried = TRUE]
          /\ UNCHANGED <<dir, inodes>>
    /\ UNCHANGED <<categoryVars, waits, callVars, limiterVars,
                   parserVars, retrieves, removed, stored>>

\* The closure's second statement: cache.QueryMedia(item).  The site answers
\* with one of its bodies or the request fails.
QueryMedia(p) ==
    /\ client[p].pc = "request"
    /\ fetches' = fetches + 1
    /\ \/ /\ client' = [client EXCEPT ![p].pc = "failed", ![p].err = "query",
                                      ![p].queried = TRUE]
          /\ UNCHANGED site
       \/ \E body \in ServedBodies :
          /\ site' = [site EXCEPT ![client[p].key] = body]
          /\ client' = [client EXCEPT ![p].pc = "create", ![p].body = body,
                                      ![p].queried = TRUE]
    /\ UNCHANGED <<categoryVars, dir, inodes, waits, callVars, limiterVars,
                   parserVars, retrieves, removed, stored>>

\* retrieve: os.Create(cacheFilePath) creates the file or truncates the one
\* that is there.
CreateCacheFile(p) ==
    /\ client[p].pc = "create"
    /\ LET k     == client[p].key
           fresh == Min(Inodes \ UsedInodes(dir, client))
           n     == IF dir[k] # 0 THEN dir[k] ELSE fresh
       IN  /\ dir' = [dir EXCEPT ![k] = n]
           /\ inodes' = [inodes EXCEPT ![n] = <<>>]
           /\ client' = [Disturb(client, p, k, n) EXCEPT ![p].pc = "copy", ![p].fd = n]
           /\ removed' = removed \ {k}
           /\ stored' = [stored EXCEPT ![k] = NoBytes]
    /\ UNCHANGED <<categoryVars, site, fetches, waits, callVars, limiterVars, parserVars,
                   retrieves>>

\* retrieve: io.Copy(&buffer, response.Body) and bufferCopy := buffer.  A
\* failed read returns the error; the deferred Close closes the cache file.
CopyBody(p) ==
    /\ client[p].pc = "copy"
    /\ \/ LET cl2 == [client EXCEPT ![p].pc = "failed", ![p].err = "body", ![p].fd = 0]
          IN  /\ client' = cl2
              /\ inodes' = Reclaim(inodes, dir, cl2)
       \/ /\ client' = [client EXCEPT ![p].pc = "write", ![p].buffer = client[p].body]
          /\ UNCHANGED inodes
    /\ UNCHANGED <<categoryVars, site, dir, fetches, waits, callVars, limiterVars, parserVars,
                   retrieves,
                   removed, stored>>

\* retrieve: io.Copy(cacheFileWriter, &buffer), one write at the start of the
\* file, and the return of io.NopCloser(&bufferCopy) with the invalidator;
\* the deferred Close closes the cache file.
WriteCacheFile(p) ==
    /\ client[p].pc = "write"
    /\ LET k   == client[p].key
           n   == client[p].fd
           cl2 == [Disturb(client, p, k, n) EXCEPT
                      ![p].pc = "returned", ![p].fd = 0,
                      ![p].reader = BufferReader(client[p].buffer)]
       IN  /\ client' = cl2
           /\ inodes' = Reclaim([inodes EXCEPT ![n] = WriteAt0(@, client[p].buffer)],
                                dir, cl2)
           /\ stored' = [stored EXCEPT ![k] =
                            IF client[p].disturbed THEN NoBytes ELSE client[p].buffer]
    /\ UNCHANGED <<categoryVars, site, dir, fetches, waits, callVars, limiterVars, parserVars,
                   retrieves,
                   removed>>

\* The caller reads the returned reader to its end and closes it, as
\* populateMediaWithExtraData does.
ReadReader(p) ==
    /\ client[p].pc = "returned"
    /\ LET cl2 == [client EXCEPT ![p].pc = "held", ![p].reader = NoReader,
                                 ![p].got = ReadAll(client[p].reader, inodes)]
       IN  /\ client' = cl2
           /\ inodes' = Reclaim(inodes, dir, cl2)
    /\ UNCHANGED <<categoryVars, site, dir, fetches, waits, callVars, limiterVars, parserVars,
                   retrieves,
                   removed, stored>>

\* The caller invokes the invalidator retrieve returned with the reader.
InvokeInvalidator(p) ==
    /\ client[p].pc = "held"
    /\ LET k   == client[p].key
           d2  == cacheInvalidator(dir, k)
           cl2 == [Disturb(client, p, k, 0) EXCEPT ![p] = IdleClient]
       IN  /\ dir' = d2
           /\ client' = cl2
           /\ inodes' = Reclaim(inodes, d2, cl2)
           /\ removed' = removed \cup {k}
           /\ stored' = [stored EXCEPT ![k] = NoBytes]
    /\ UNCHANGED <<categoryVars, site, fetches, waits, callVars, limiterVars, parserVars,
                   retrieves>>

\* The entries as the profile parser leaves them; the cache holds the site's
\* body for some of the entries; the clients are about to call the cache.
InitCacheSpec ==
    /\ Data = [i \in Entries |-> NewMedia(i)]
    /\ extraDataLoaded = FALSE
    /\ site = [k \in CacheIds |-> HealthyBody]
    /\ \E cached \in SUBSET CacheIds : InitCache(cached)
    /\ InitCalls
    /\ InitClients
    /\ InitLimiter(NoLimiter)
    /\ InitParser

NextCache ==
    \/ \E p \in Clients, i \in Entries : RetrieveAnimeRawData(p, i)
    \/ \E p \in Clients : OpenCacheFile(p)
    \/ \E p \in Clients : QueryWait(p)
    \/ \E p \in Clients : QueryMedia(p)
    \/ \E p \in Clients : CreateCacheFile(p)
    \/ \E p \in Clients : CopyBody(p)
    \/ \E p \in Clients : WriteCacheFile(p)
    \/ \E p \in Clients : ReadReader(p)
    \/ \E p \in Clients : InvokeInvalidator(p)

SpecCache == InitCacheSpec /\ [][NextCache]_vars

\* ------------------------------------------------------ claims on the cache

\* Client p's retrieve has returned to its caller without an error.
RetrieveReturned(cl, p) == cl[p].pc \in {"returned", "held"} /\ cl[p].err = ""

\* C6: a retrieve whose os.Open found the cache file and opened it returns
\* in that step a reader over that file (with the invalidator), and a
\* retrieve that returned on a hit has invoked neither cache.QueryMedia nor
\* the rate limiter's Wait.
C6_HitStep ==
    \A p \in Clients :
        /\ client[p].pc = "open"
        /\ client'[p].pc # "open"
        /\ client'[p].err # "open"
        /\ dir[client[p].key] # 0
        => /\ client'[p].pc = "returned"
           /\ client'[p].hit
           /\ client'[p].reader = FileReader(dir[client[p].key])
           /\ ~client'[p].queried /\ ~client'[p].waited
           /\ UNCHANGED <<fetches, waits>>

C6_HitState ==
    \A p \in Clients :
        client[p].hit =>
            /\ ~client[p].queried
            /\ ~client[p].waited
            /\ client[p].err = ""
            /\ client[p].pc = "returned" => client[p].reader.kind = "file"

C6_HitBypassesFetch == [][C6_HitStep]_vars /\ []C6_HitState

\* A retrieve returned on a hit although another retrieve has fetched.
C6_Witness ==
    \E p \in Clients :
        /\ client[p].pc = "returned"
        /\ client[p].hit
        /\ client[p].reader.kind = "file"
        /\ fetches > 0

\* C7: the invalidator a retrieve returned unlinks the path of that
\* retrieve's identifier and leaves every other identifier's cache file as it
\* was; and a retrieve whose os.Open ran after an invalidator removed the
\* path, no retrieve having created it since, is a miss: it returns only
\* after it invoked cache.QueryMedia.
C7_InvalidateStep ==
    \A p \in Clients :
        client[p].pc = "held" /\ client'[p].pc = "idle"
        => /\ dir'[client[p].key] = 0
           /\ \A j \in CacheIds \ {client[p].key} :
                 /\ dir'[j] = dir[j]
                 /\ FileBytes(dir', inodes', j) = FileBytes(dir, inodes, j)

C7_MissAfterInvalidate ==
    \A p \in Clients :
        client[p].sawRemoved /\ client[p].err # "open" =>
            /\ ~client[p].hit
            /\ client[p].pc # "query" => client[p].waited
            /\ client[p].pc \notin {"query", "request"} => client[p].queried

C7_InvalidatorDeletes == [][C7_InvalidateStep]_vars /\ []C7_MissAfterInvalidate

\* A retrieve that followed an invalidation of its path has fetched and
\* returned, while another identifier's cache file is still there.
C7_Witness ==
    \E p \in Clients :
        /\ client[p].sawRemoved
        /\ client[p].pc = "returned"
        /\ client[p].queried
        /\ \E j \in CacheIds \ {client[p].key} : dir[j] # 0

\* C8: a retrieve that missed and fetched returns a reader yielding the
\* whole response body; when no other retrieve or invalidator worked on the
\* path meanwhile, the cache file holds the body's bytes once written; and a
\* retrieve that opens a path such a miss has written is a hit whose reader
\* yields those bytes, without a fetch.
C8_WriteStep ==
    \A p \in Clients :
        client[p].pc = "write" /\ client'[p].pc = "returned" /\ ~client[p].disturbed
        => /\ dir'[client[p].key] # 0
           /\ FileBytes(dir', inodes', client[p].key) = client[p].body

C8_OpenStep ==
    \A p \in Clients :
        /\ client[p].pc = "open"
        /\ client'[p].pc # "open"
        /\ client'[p].err # "open"
        /\ stored[client[p].key] # NoBytes
        => client'[p].hit /\ client'[p].expect = stored[client[p].key]

C8_ReaderYieldsBody ==
    \A p \in Clients :
        /\ client[p].pc = "returned" /\ ~client[p].hit
           => ReadAll(client[p].reader, inodes) = client[p].body
        /\ client[p].pc = "held" /\ ~client[p].hit
           => client[p].got = client[p].body
        /\ client[p].pc = "held" /\ client[p].expect # NoBytes
           => client[p].hit /\ client[p].got = client[p].expect /\ ~client[p].queried
        /\ \A k \in CacheIds :
             stored[k] # NoBytes => dir[k] # 0 /\ FileBytes(dir, inodes, k) = stored[k]

C8_RoundTrip ==
    [][C8_WriteStep /\ C8_OpenStep]_vars /\ []C8_ReaderYieldsBody

\* A retrieve read, on a hit, the bytes a fetching retrieve wrote.
C8_Witness ==
    \E p \in Clients :
        /\ client[p].pc = "held"
        /\ client[p].hit
        /\ client[p].expect = NotFoundBody
        /\ client[p].got = NotFoundBody
        /\ fetches > 0

\* C17: a retrieve that opened the cache file of its key (a hit) and whose
\* reader was read to its end got a complete response body, whatever another
\* retrieve handling a miss for the key was doing: never an empty or partly
\* written file.
C17_ReaderSeesCompleteFile ==
    \A p \in Clients :
        client[p].pc = "held" /\ client[p].hit => client[p].got \in ServedBodies

\* Clients p and q both missed on the same key and both retrieves returned.
BothMissed(p, q) ==
    /\ p # q
    /\ client[p].key = client[q].key
    /\ RetrieveReturned(client, p) /\ ~client[p].hit
    /\ RetrieveReturned(client, q) /\ ~client[q].hit

\* C18: when two retrieves for one identifier both missed and both have
\* returned, each one's reader yields the body of its own fetch, and the
\* cache file holds the complete body of one of the two, not a mixture.
C18_LastWriterWins ==
    \A p, q \in Clients :
        BothMissed(p, q) =>
            /\ client[p].pc = "returned"
                  => ReadAll(client[p].reader, inodes) = client[p].body
            /\ client[p].pc = "held" => client[p].got = client[p].body
            /\ dir[client[p].key] # 0
            /\ FileBytes(dir, inodes, client[p].key)
                  \in {client[p].body, client[q].body}

\* The retrieves between the return of the limiter's Wait and the request.
AtRequest == {p \in Clients : client[p].pc = "request"}

\* C19: with the default cache, every request (a call of cache.QueryMedia)
\* is preceded by exactly one returned Wait of the anime limiter, made by the
\* retrieve that sends it, and Wait is called only on a miss: the Waits that
\* returned are the requests sent plus the retrieves about to send theirs,
\* and a retrieve that hit has not waited.
C19_PermitStep ==
    /\ fetches' # fetches =>
          /\ fetches' = fetches + 1
          /\ \E p \in Clients :
                /\ client[p].pc = "request" /\ client[p].waited
                /\ client'[p].pc # "request"
                /\ ~client[p].hit
    /\ waits' # waits =>
          /\ waits' = waits + 1
          /\ \E p \in Clients :
                /\ client[p].pc = "query" /\ ~client[p].waited
                /\ client'[p].pc = "request"
                /\ ~client[p].hit

C19_PermitState ==
    /\ waits = fetches + Cardinality(AtRequest)
    /\ \A p \in Clients :
          /\ client[p].queried => client[p].waited
          /\ client[p].hit => ~client[p].waited /\ ~client[p].queried
          /\ client[p].pc = "request" => client[p].waited /\ ~client[p].queried

C19_PermitPerFetch == [][C19_PermitStep]_vars /\ []C19_PermitState

\* Two requests were sent after two Waits, none is under way, and a retrieve
\* that hit has returned without a Wait.
C19_Witness ==
    /\ fetches = 2
    /\ waits = 2
    /\ AtRequest = {}
    /\ \E p \in Clients : client[p].hit /\ client[p].pc = "returned"

\* C21: a retrieve whose os.Open fails with an error other than not-exist
\* returns that error in that step, having neither waited nor fetched, and
\* the cache is as it was; a retrieve whose fetch fails returns that error in
\* that step and the cache directory and files are as they were, so that,
\* when no other retrieve worked on the key meanwhile, the key has no cache
\* file; and an os.Open of a key without cache file is a miss.
C21_OpenFailStep ==
    \A p \in Clients :
        client[p].pc = "open" /\ client'[p].err = "open" =>
            /\ client'[p].pc = "failed"
            /\ ~client'[p].queried /\ ~client'[p].waited
            /\ UNCHANGED <<dir, inodes, fetches, waits>>

C21_FetchFailStep ==
    \A p \in Clients :
        client[p].pc = "request" /\ client'[p].err = "query" =>
            /\ client'[p].pc = "failed"
            /\ UNCHANGED <<dir, inodes>>
            /\ ~client[p].disturbed => dir'[client[p].key] = 0

C21_MissStep ==
    \A p \in Clients :
        /\ client[p].pc = "open" /\ client'[p].pc # "open"
        /\ dir[client[p].key] = 0
        => /\ ~client'[p].hit
           /\ client'[p].pc \in {"query", "failed"}

C21_Failed ==
    \A p \in Clients :
        /\ client[p].err = "open" => ~client[p].queried /\ ~client[p].waited
        /\ client[p].err # "" => client[p].pc = "failed" /\ ~client[p].hit

C21_FailureLeavesCache ==
    /\ [][C21_OpenFailStep /\ C21_FetchFailStep /\ C21_MissStep]_vars
    /\ []C21_Failed

\* One retrieve failed in its fetch and its key has no cache file, another
\* failed in os.Open.
C21_Witness ==
    \E p, q \in Clients :
        /\ client[p].pc = "failed" /\ client[p].err = "query"
        /\ dir[client[p].key] = 0
        /\ client[q].pc = "failed" /\ client[q].err = "open"

\* ------------------------------------------------- SpecLimiter: Limiter.Wait

\* The limiters under test: the three of the default cache, and the limiters
\* of up to MaxPermits permits.
Limiters ==
    {[field |-> f, maxPermits |-> CreateDefaultCache[f].maxPermits,
      window |-> CreateDefaultCache[f].window] : f \in DOMAIN CreateDefaultCache}
    \cup {[field |-> "", maxPermits |-> n, window |-> 1] : n \in 1..MaxPermits}

\* Limiter.Wait is called: the caller queues for a permit.
Wait(p) ==
    /\ \A n \in DOMAIN waitQueue : waitQueue[n] # p
    /\ waitQueue' = Append(waitQueue, p)
    /\ UNCHANGED <<categoryVars, cacheVars, callVars, clientVars, parserVars, limiter,
                   available, pending, acquired>>

\* The first caller in the queue consumes a permit and its Wait returns; the
\* permit returns a window later.
Acquire ==
    /\ waitQueue # <<>>
    /\ available > 0
    /\ waitQueue' = Tail(waitQueue)
    /\ available' = available - 1
    /\ pending' = [pending EXCEPT ![TicksPerWindow] = @ + 1]
    /\ acquired' = [acquired EXCEPT ![0] = @ + 1]
    /\ UNCHANGED <<categoryVars, cacheVars, callVars, clientVars, parserVars, limiter>>

\* The clock advances by one tick: the permits due return, and the
\* acquisitions age.
Tick ==
    /\ available' = available + pending[1]
    /\ pending' = [r \in Remaining |->
                      IF r < TicksPerWindow THEN pending[r + 1] ELSE 0]
    /\ acquired' = [a \in Ages |-> IF a > 0 THEN acquired[a - 1] ELSE 0]
    /\ UNCHANGED <<categoryVars, cacheVars, callVars, clientVars, parserVars, limiter,
                   waitQueue>>

\* One of the limiters, fresh; the rest of the program at rest.
InitLimiterSpec ==
    /\ Data = [i \in Entries |-> NewMedia(i)]
    /\ extraDataLoaded = FALSE
    /\ site = [k \in CacheIds |-> HealthyBody]
    /\ InitCache({})
    /\ InitCalls
    /\ InitClients
    /\ \E l \in Limiters : InitLimiter(l)
    /\ InitParser

NextLimiter ==
    \/ \E p \in Callers : Wait(p)
    \/ Acquire
    \/ Tick

SpecLimiter == InitLimiterSpec /\ [][NextLimiter]_vars

\* ---------------------------------------------------- claims on the limiter

RECURSIVE SumOver(_, _)
SumOver(f, S) ==
    IF S = {} THEN 0
    ELSE LET x == CHOOSE y \in S : TRUE IN f[x] + SumOver(f, S \ {x})

\* The acquisitions completed in the window that ends now.
AcquiredInWindow == SumOver(acquired, Ages)

\* C9: in the window that ends at any instant, the acquisitions completed
\* are at most the limiter's maxPermits; for the default cache that is 18
\* per window of 6 minutes on anime details, 8 per 5 minutes on manga
\* details and 38 per 6 minutes on profile tabs.  A fetch is counted at the
\* instant the Wait before it returned.
C9_WindowBound ==
    /\ AcquiredInWindow <= limiter.maxPermits
    /\ limiter.field = "AnimeQueryRatelimiter" =>
           AcquiredInWindow <= 18 /\ limiter.window = 6
    /\ limiter.field = "MangaQueryRatelimiter" =>
           AcquiredInWindow <= 8 /\ limiter.window = 5
    /\ limiter.field = "ProfileTabQueryRatelimiter" =>
           AcquiredInWindow <= 38 /\ limiter.window = 6

\* The profile-tab limiter has let 38 acquisitions through within one window,
\* at more than one instant, and a caller is blocked in Wait.
C9_Witness ==
    /\ limiter.field = "ProfileTabQueryRatelimiter"
    /\ AcquiredInWindow = 38
    /\ acquired[0] > 0
    /\ acquired[TicksPerWindow - 1] > 0
    /\ available = 0
    /\ waitQueue # <<>>

\* ------------------------------------------ SpecIdentifier: getCacheIdentifier

\* The pieces the URLs are put together from.
Pieces ==
    {InfoPrefix, <<"2">>, <<"9", "6">>, <<"#", "t", "o", "p">>, <<"/">>, <<"x">>,
     InfoPrefix \o <<"7">>}

RECURSIVE Concat(_)
Concat(ps) == IF ps = <<>> THEN <<>> ELSE Head(ps) \o Concat(Tail(ps))

\* The URLs of at most MaxPieces pieces.
URLs ==
    {Concat(ps) : ps \in UNION {[1..n -> Pieces] : n \in 1..MaxPieces}}

\* getCacheIdentifier(anime) is called and returns, or panics on the index
\* into the nil slice of a pattern that did not match (the empty identifier).
GetCacheIdentifier ==
    /\ identifier = Unset
    /\ identifier' = getCacheIdentifier(anime)
    /\ UNCHANGED <<categoryVars, cacheVars, callVars, clientVars, limiterVars,
                   anime, document, watchlist, detail>>

\* A Media with any of the URLs; the rest of the program at rest.
InitIdentifierSpec ==
    /\ Data = [i \in Entries |-> NewMedia(i)]
    /\ extraDataLoaded = FALSE
    /\ site = [k \in CacheIds |-> HealthyBody]
    /\ InitCache({})
    /\ InitCalls
    /\ InitClients
    /\ InitLimiter(NoLimiter)
    /\ \E u \in URLs : anime = [NewMedia(1) EXCEPT !.ProxerURL = u]
    /\ identifier = Unset
    /\ document = EmptyDocument
    /\ watchlist = Unparsed
    /\ detail = NoDetail

NextIdentifier == GetCacheIdentifier

SpecIdentifier == InitIdentifierSpec /\ [][NextIdentifier]_vars

\* The URL has the form /info/<digits><anything>.
OfInfoForm(s) ==
    Len(s) >= 7 /\ SubSeq(s, 1, 6) = InfoPrefix /\ IsDigit(s[7])

\* C12: for a ProxerURL of the form /info/<digits><anything>,
\* getCacheIdentifier returns the digits that directly follow the leading
\* /info/: a non-empty run of digits, all of them, up to the first character
\* that is no digit or the end of the URL.
C12_IdentifierOfInfoURL ==
    identifier # Unset /\ OfInfoForm(anime.ProxerURL) =>
        \E n \in 1..(Len(anime.ProxerURL) - 6) :
            /\ identifier = SubSeq(anime.ProxerURL, 7, 6 + n)
            /\ \A j \in 7..(6 + n) : IsDigit(anime.ProxerURL[j])
            /\ 6 + n = Len(anime.ProxerURL) \/ ~IsDigit(anime.ProxerURL[7 + n])

\* The identifier of a URL in which /info/ and digits occur a second time.
C12_Witness ==
    /\ anime.ProxerURL = InfoPrefix \o <<"9", "6">> \o InfoPrefix \o <<"7">>
    /\ identifier = <<"9", "6">>

\* ----------------------------------------- SpecProfile: ParseProfileMediaTab

\* The hrefs of the rows' links: one of an info page, one of another page.
Hrefs == {InfoPrefix \o <<"2", "9", "6">> \o <<"#", "t", "o", "p">>,
          <<"/", "u", "s", "e", "r", "/", "1">>}

\* The characters of a link's text: a letter and two kinds of whitespace.
TitleChars == {"a", " ", "\t"}

\* The character is one the pattern's \s matches.
IsSpace(ch) == ch \in {" ", "\t", "\n", "\f", "\r"}

\* The texts of a link, of at most MaxTitle characters (a link without text
\* has no text node to take the title from).
RawTitles == UNION {[1..n -> TitleChars] : n \in 1..MaxTitle}

\* The link text of the rows of SpecProfile.
DoubleSpaced == <<"a", " ", " ", "a">>

\* The length of the run of whitespace s starts with.
SpaceRun(s) ==
    IF \A n \in DOMAIN s : IsSpace(s[n]) THEN Len(s)
    ELSE Min({n \in DOMAIN s : ~IsSpace(s[n])}) - 1

\* A cleaner that turns every run of whitespace, of one character too, into
\* a space.  C26_TitleCollapsed must reject it.
RECURSIVE spaceCleanerOneOrMore(_)
spaceCleanerOneOrMore(s) ==
    IF s = <<>> THEN <<>>
    ELSE IF SpaceRun(s) >= 1
    THEN <<" ">> \o spaceCleanerOneOrMore(SubSeq(s, SpaceRun(s) + 1, Len(s)))
    ELSE <<Head(s)>> \o spaceCleanerOneOrMore(Tail(s))

\* spaceCleaner.ReplaceAllString(s, " ") for the pattern \s{2,}: from left to
\* right, every longest run of two or more whitespace characters becomes one
\* space.
RECURSIVE spaceCleaner(_)
spaceCleaner(s) ==
    IF s = <<>> THEN <<>>
    ELSE IF SpaceRun(s) >= 2
    THEN <<" ">> \o spaceCleaner(SubSeq(s, SpaceRun(s) + 1, Len(s)))
    ELSE <<Head(s)>> \o spaceCleaner(Tail(s))

\* One of a table's first two rows: the header and the column labels, which
\* have no status image, link or counts.
HeaderRow == [hasStatus |-> FALSE, href |-> <<>>, countsScan |-> FALSE, text |-> <<>>]

\* An entry row of a table: whether the status image has a title attribute,
\* the link's href and text, and whether the counts cell scans as "%d / %d".
TableRows ==
    [hasStatus : BOOLEAN, href : Hrefs, countsScan : BOOLEAN, text : {DoubleSpaced}]

\* The rows of a table: fewer than the two header rows, or the two header
\* rows and at most MaxRows entry rows.
Tables ==
    {[n \in 1..k |-> HeaderRow] : k \in 0..1}
    \cup {<<HeaderRow, HeaderRow>> \o t : t \in UNION {[1..n -> TableRows] : n \in 0..MaxRows}}

\* The Media parseProfileTabMediaTable builds from a row.
RowMedia(row) ==
    [NewMedia(1) EXCEPT !.Status = "Airing", !.ProxerURL = row.href,
                        !.Title = spaceCleaner(row.text),
                        !.EpisodesWatched = 3, !.EpisodeCount = 12]

\* The Each callback over the rows of index 2 and more: the entries of the
\* rows, in order; a row without the status title makes it log.Panicf, a
\* counts cell that does not scan makes it panic(scanError).
RECURSIVE EachRow(_)
EachRow(rows) ==
    IF rows = <<>> THEN [panic |-> FALSE, entries |-> <<>>]
    ELSE LET row  == Head(rows)
             rest == EachRow(Tail(rows))
         IN  IF ~row.hasStatus \/ ~row.countsScan \/ rest.panic
             THEN [panic |-> TRUE, entries |-> <<>>]
             ELSE [panic |-> FALSE, entries |-> <<RowMedia(row)>> \o rest.entries]

\* A table parser that skips the first row only.  C24_TablesToCategories
\* must reject it.
parseProfileTabMediaTableSkippingOne(table) ==
    IF Len(table) < 2 THEN [panic |-> TRUE, entries |-> <<>>]
    ELSE EachRow(SubSeq(table, 2, Len(table)))

\* parseProfileTabMediaTable(table): make([]*Media, 0, rows.Size()-2) panics
\* on a table of fewer than two rows; the rows of index 0 and 1 are skipped.
parseProfileTabMediaTable(table) ==
    IF Len(table) < 2 THEN [panic |-> TRUE, entries |-> <<>>]
    ELSE EachRow(SubSeq(table, 3, Len(table)))

\* ParseProfileMediaTab(reader): the error of reading the document is
\* returned; the four tables are parsed in turn, each into a new
\* WatchlistCategory; a panic of one of them is the operation's outcome.
ParseProfileMediaTab ==
    /\ watchlist.outcome = "none"
    /\ LET parsed == [n \in DOMAIN Categories |->
                         parseProfileTabMediaTable(document.tables[n])]
       IN  watchlist' =
               IF document.readError
               THEN [Unparsed EXCEPT !.outcome = "error"]
               ELSE IF \E n \in DOMAIN Categories : parsed[n].panic
               THEN [Unparsed EXCEPT !.outcome = "panic"]
               ELSE [outcome |-> "ok",
                     tables |-> [n \in DOMAIN Categories |-> parsed[n].entries],
                     extraDataLoaded |-> [n \in DOMAIN Categories |-> FALSE]]
    /\ UNCHANGED <<categoryVars, cacheVars, callVars, clientVars, limiterVars,
                   anime, identifier, document, detail>>

\* getCacheIdentifier is called on an entry of the parsed watchlist.
IdentifyEntry ==
    /\ watchlist.outcome = "ok"
    /\ identifier = Unset
    /\ \E n \in DOMAIN Categories :
        \E j \in DOMAIN watchlist.tables[n] :
            /\ anime' = watchlist.tables[n][j]
            /\ identifier' = getCacheIdentifier(watchlist.tables[n][j])
    /\ UNCHANGED <<categoryVars, cacheVars, callVars, clientVars, limiterVars,
                   document, watchlist, detail>>

\* Any profile tab of the four tables, readable or not; the rest of the
\* program at rest.
InitProfileSpec ==
    /\ Data = [i \in Entries |-> NewMedia(i)]
    /\ extraDataLoaded = FALSE
    /\ site = [k \in CacheIds |-> HealthyBody]
    /\ InitCache({})
    /\ InitCalls
    /\ InitClients
    /\ InitLimiter(NoLimiter)
    /\ anime = NewMedia(1)
    /\ identifier = Unset
    /\ document \in [readError : BOOLEAN, tables : [DOMAIN Categories -> Tables]]
    /\ watchlist = Unparsed
    /\ detail = NoDetail

NextProfile ==
    \/ ParseProfileMediaTab
    \/ IdentifyEntry

SpecProfile == InitProfileSpec /\ [][NextProfile]_vars

\* Every table of the document has its two header rows.
HasHeaderRows == \A n \in DOMAIN Categories : Len(document.tables[n]) >= 2

\* The entry rows of the document.
DocumentRows ==
    UNION {{document.tables[n][j] : j \in DOMAIN document.tables[n] \ {1, 2}} :
              n \in DOMAIN Categories}

\* The entries of the watchlist.
WatchlistEntries ==
    UNION {{watchlist.tables[n][j] : j \in DOMAIN watchlist.tables[n]} :
              n \in DOMAIN Categories}

\* C13: every Media of a watchlist ParseProfileMediaTab returned has a
\* ProxerURL of the form /info/<digits><anything>, and a document with a row
\* whose href is not of that form (its tables and rows being sound
\* otherwise) makes the parse return an error.
C13_ParsedURLsMatch ==
    watchlist.outcome # "none" =>
        /\ \A m \in WatchlistEntries : OfInfoForm(m.ProxerURL)
        /\ /\ \E row \in DocumentRows : ~OfInfoForm(row.href)
           /\ \A row \in DocumentRows : row.hasStatus /\ row.countsScan
           /\ HasHeaderRows
           => watchlist.outcome = "error"

\* C14: a document with a row that lacks the status title, or whose counts
\* cell does not scan, makes ParseProfileMediaTab return an error: it does
\* not panic and does not return a watchlist.
C14_RowFailureIsReturned ==
    watchlist.outcome # "none" /\ HasHeaderRows =>
        ((\E row \in DocumentRows : ~row.hasStatus \/ ~row.countsScan) =>
            watchlist.outcome = "error")

InitTitleSpec ==
    /\ Data = [i \in Entries |-> NewMedia(i)]
    /\ extraDataLoaded = FALSE
    /\ site = [k \in CacheIds |-> HealthyBody]
    /\ InitCache({})
    /\ InitCalls
    /\ InitClients
    /\ InitLimiter(NoLimiter)
    /\ anime = NewMedia(1)
    /\ identifier = Unset
    /\ \E raw \in RawTitles, href \in Hrefs :
          document =
              [readError |-> FALSE,
               tables |-> [n \in DOMAIN Categories |->
                   <<HeaderRow, HeaderRow>> \o
                   (IF n = 1
                    THEN <<[hasStatus |-> TRUE, href |-> href,
                            countsScan |-> TRUE, text |-> raw]>>
                    ELSE <<>>)]]
    /\ watchlist = Unparsed
    /\ detail = NoDetail

SpecTitle == InitTitleSpec /\ [][NextProfile]_vars

\* Two neighbouring characters of s, at n and n + 1, are both whitespace.
InPair(s, n) == n \in 1..(Len(s) - 1) /\ IsSpace(s[n]) /\ IsSpace(s[n + 1])

\* The place the raw text's character n has in the title: every character
\* before it takes a place of its own, except a whitespace character that is
\* followed by another one, which shares the place of its follower.
TitlePlace(s, n) == 1 + Cardinality({m \in 1..(n - 1) : ~InPair(s, m)})

\* C26: the Title of a parsed entry has no two neighbouring whitespace
\* characters, and it is the raw link text with every longest run of two or
\* more whitespace characters replaced by one space: the characters outside
\* such runs are kept, in order, and each such run takes one place, a space.
C26_TitleCollapsed ==
    watchlist.outcome = "ok" =>
        \A n \in DOMAIN Categories :
            \A j \in DOMAIN watchlist.tables[n] :
                LET raw   == document.tables[n][j + 2].text
                    title == watchlist.tables[n][j].Title
                IN  /\ \A m \in DOMAIN title : ~InPair(title, m)
                    /\ Len(title) = TitlePlace(raw, Len(raw))
                    /\ \A m \in DOMAIN raw :
                          title[TitlePlace(raw, m)] =
                              IF InPair(raw, m) \/ InPair(raw, m - 1)
                              THEN " " ELSE raw[m]

\* The title of a text with a run of two whitespace characters and a single
\* tab: the run has become a space, the tab is kept.
C26_Witness ==
    /\ watchlist.outcome = "ok"
    /\ document.tables[1][3].text = <<"a", " ", "\t", "a", "\t">>
    /\ watchlist.tables[1][1].Title = <<"a", " ", "a", "\t">>

\* ------------------------------------------- SpecDetail: the detail parser

\* The texts a Season row's link can have: two that scan as a word and a
\* year, one of a single word, one whose second word is no number.
SeasonTexts ==
    {<<Word("Winter"), Num(2020)>>, <<Word("Sommer"), Num(2021)>>,
     <<Word("TBA")>>, <<Word("Herbst"), Word("x")>>}

\* The links of a Season row: up to MaxLinks of them.
SeasonLinks == UNION {[1..n -> SeasonTexts] : n \in 0..MaxLinks}

\* The detail pages: a title, with or without "404"; the login banner or no
\* h3; the recaptcha script or none; a Synonym row or none; a Season row or
\* none; a rating that parses as a float or one that does not.
DetailPages ==
    {<<El("title", t)>> \o h \o c \o syn \o sea \o <<El("average", a)>> :
        t \in {"My Show - Proxer.Me", "404 - not found"},
        h \in {<<>>, <<El("h3", "Bitte logge dich ein")>>},
        c \in {<<>>, <<El("script", "//www.google.com/recaptcha/api.js")>>},
        syn \in {<<>>, <<Row("Synonym", "MS")>>},
        sea \in {<<>>} \cup {<<SeasonRow(l)>> : l \in SeasonLinks},
        a \in {"4.3", "n/a"}}

\* The entry the parser is given: as the profile parser left it, or as an
\* earlier enrichment from the healthy page left it.
DetailItems == {NewMedia(1), ParseDetail(HealthyPage, NewMedia(1)).item}

\* populateMediaWithExtraData from the parsed document on: classification,
\* extraction and rating.
ParseDetailPage ==
    /\ detail.result = NotParsed
    /\ detail' = [detail EXCEPT !.result = ParseDetail(detail.page, detail.item)]
    /\ UNCHANGED <<categoryVars, cacheVars, callVars, clientVars, limiterVars,
                   anime, identifier, document, watchlist>>

\* Any of the detail pages and either entry; the rest of the program at rest.
InitDetailSpec ==
    /\ Data = [i \in Entries |-> NewMedia(i)]
    /\ extraDataLoaded = FALSE
    /\ site = [k \in CacheIds |-> HealthyBody]
    /\ InitCache({})
    /\ InitCalls
    /\ InitClients
    /\ InitLimiter(NoLimiter)
    /\ anime = NewMedia(1)
    /\ identifier = Unset
    /\ document = EmptyDocument
    /\ watchlist = Unparsed
    /\ \E pg \in DetailPages, it \in DetailItems :
          detail = [page |-> pg, item |-> it, result |-> NotParsed]

NextDetail == ParseDetailPage

SpecDetail == InitDetailSpec /\ [][NextDetail]_vars

\* What the parser did with the page: whether it invoked the invalidator,
\* returned a fatal error, changed a field of the entry.
Invalidated == detail.result.invalidated > 0

FatalError == detail.result.err # ""

Extracted == detail.result.item # detail.item

\* C23: the parser classifies in the order 404 title or login banner, then
\* captcha script, then extraction: a page with a 404 title or a login banner
\* is invalidated without an error and without a change to the entry, with
\* or without the captcha script; another page with the captcha script gives
\* the fatal error alone; and never do two of invalidation, fatal error and
\* field extraction happen for one page.
C23_OneOutcomePerPage ==
    detail.result # NotParsed =>
        /\ IsUnusable(detail.page) =>
              Invalidated /\ ~FatalError /\ ~Extracted
        /\ ~IsUnusable(detail.page) /\ HasCaptcha(detail.page) =>
              ~Invalidated /\ detail.result.err = "captcha" /\ ~Extracted
        /\ ~(Invalidated /\ FatalError)
        /\ ~(Invalidated /\ Extracted)
        /\ ~(FatalError /\ Extracted)

\* The links of the page's Season row.
SeasonLinksOf(page) ==
    LET rows == SelectSeq(page, LAMBDA e : e.tag = "row" /\ e.text = "Season")
    IN  IF rows = <<>> THEN <<>> ELSE rows[1].links

\* The link's text scans as a word and a year.
ScansAsSeason(link) == Len(link) >= 2 /\ link[2].n >= 0

\* C25: when the parser extracts from a page, a Season row with the links
\* "Winter 2020" and "Sommer 2021" gives the release period (Q1, 2020, Q3,
\* 2021); and a Season row one of whose first two links does not scan as a
\* word and a year leaves the entry's ReleasePeriod as it was and raises no
\* error.
C25_SeasonExtraction ==
    /\ detail.result # NotParsed
    /\ ~IsUnusable(detail.page) /\ ~HasCaptcha(detail.page)
    => LET links == SeasonLinksOf(detail.page)
       IN  /\ links = << <<Word("Winter"), Num(2020)>>, <<Word("Sommer"), Num(2021)>> >>
                 => detail.result.item.ReleasePeriod =
                      [FromSeason |-> Q1, FromYear |-> 2020,
                       ToSeason |-> Q3, ToYear |-> 2021]
           /\ (\E n \in DOMAIN links : n <= 2 /\ ~ScansAsSeason(links[n]))
                 => /\ detail.result.item.ReleasePeriod = detail.item.ReleasePeriod
                    /\ detail.result.err \in {"", "rating"}

====
